---- MODULE Spec2Model ----
(***************************************************************************)
(* Model of the e-mail sender component (src/src/component.py,             *)
(* src/src/client.py): Component.run, Component.init_client,               *)
(* Component.send_emails and SMTPClient.build_email / send_email.          *)
(*                                                                         *)
(* Text is a sequence of one-character strings.  An optional value (a      *)
(* Python name that may be None or unbound) is a sequence of length 0 or 1.*)
(* An error message is a record of its kind and the texts it cites.        *)
(***************************************************************************)
EXTENDS Integers, Sequences, FiniteSets, TLC

\* Largest number of rows the row source yields in one run.
MaxRows == 2

None == << >>
Some(x) == << x >>
IsNone(o) == o = << >>
Value(o) == o[1]

----------------------------------------------------------------------------
(* Text helpers *)

\* s[i..j] with Python slice bounds already resolved (1-based, inclusive).
Slice(s, i, j) == IF i > j THEN << >> ELSE SubSeq(s, i, j)

\* True iff s holds p at position i.
HasAt(s, i, p) ==
    /\ i + Len(p) - 1 <= Len(s)
    /\ \A k \in 1..Len(p) : s[i + k - 1] = p[k]

\* str.strip(chars): drop leading and trailing characters that are in chars.
RECURSIVE LStrip(_, _)
LStrip(s, chars) ==
    IF s # << >> /\ s[1] \in chars THEN LStrip(Tail(s), chars) ELSE s

RECURSIVE RStrip(_, _)
RStrip(s, chars) ==
    IF s # << >> /\ s[Len(s)] \in chars
    THEN RStrip(SubSeq(s, 1, Len(s) - 1), chars) ELSE s

Strip(s, chars) == RStrip(LStrip(s, chars), chars)

Whitespace == {" "}

\* str.split(sep) for a one-character separator.
RECURSIVE SplitFrom(_, _, _, _)
SplitFrom(s, sep, i, cur) ==
    IF i > Len(s) THEN << cur >>
    ELSE IF s[i] = sep THEN << cur >> \o SplitFrom(s, sep, i + 1, << >>)
    ELSE SplitFrom(s, sep, i + 1, Append(cur, s[i]))

Split(s, sep) == SplitFrom(s, sep, 1, << >>)

\* The elements of a sequence, as a set.
Range(s) == { s[i] : i \in 1..Len(s) }

\* A sequence without its repeated elements, first occurrences kept in order
\* (the key order of a Python dict built from the sequence).
RECURSIVE Dedup(_)
Dedup(s) ==
    IF s = << >> THEN << >>
    ELSE LET r == Dedup(SubSeq(s, 1, Len(s) - 1))
         IN  IF s[Len(s)] \in Range(r) THEN r ELSE Append(r, s[Len(s)])

\* All orders in which the elements of a finite set can be enumerated.
RECURSIVE Orders(_)
Orders(S) ==
    IF S = {} THEN { << >> }
    ELSE UNION { { << x >> \o t : t \in Orders(S \ {x}) } : x \in S }

Min(S) == CHOOSE x \in S : \A y \in S : x <= y

\* A Python string literal, written as text.
OB == "{"
CB == "}"
Open2 == << OB, OB >>
Close2 == << CB, CB >>

----------------------------------------------------------------------------
(* Exceptions carry a message str(e): a kind and the texts it cites. *)

Msg(kind, args) == [kind |-> kind, args |-> args]
NoMessage == Msg("", << >>)
\* bool(str(e)) of component.py line 318
Truthy(m) == m # NoMessage

----------------------------------------------------------------------------
(* Placeholder parser and template validator (component.py 358-369) *)

\* re.findall(r'\{\{.*?\}\}', t): leftmost, non-overlapping, shortest matches;
\* '.' does not match a newline.
RECURSIVE FindAll(_, _)
FindAll(t, i) ==
    IF i > Len(t) THEN << >>
    ELSE IF HasAt(t, i, Open2)
         THEN LET ends == { j \in (i + 2)..Len(t) : HasAt(t, j, Close2) }
              IN  IF ends = {} \/ "\n" \in Range(Slice(t, i + 2, Min(ends \cup {Len(t) + 2}) - 1))
                  THEN FindAll(t, i + 1)
                  ELSE << Slice(t, i, Min(ends) + 1) >> \o FindAll(t, Min(ends) + 2)
         ELSE FindAll(t, i + 1)

\* _parse_template_placeholders: set(placeholder.strip('{}') for each match)
ParseTemplatePlaceholders(template_text) ==
    { Strip(m, {OB, CB}) : m \in Range(FindAll(template_text, 1)) }

MissingColumns(template_text, columns) ==
    ParseTemplatePlaceholders(template_text) \ columns

\* _validate_template_text with continue_on_error False: the set of messages
\* it can raise (', '.join over a set enumerates it in an unspecified order);
\* empty when it returns normally.
ValidateTemplateText(template_text, columns) ==
    LET missing_columns == MissingColumns(template_text, columns)
    IN  IF missing_columns = {} THEN {}
        ELSE { Msg("Missing columns", o) : o \in Orders(missing_columns) }

----------------------------------------------------------------------------
(* jinja2 Template(text).render(row), for variable substitution templates:  *)
(* None when it raises (a syntax error), Some(text) otherwise.  An          *)
(* undefined name renders as the empty text.                                *)

Letters == {"a", "b", "e", "f", "g", "h", "m", "n", "p", "s", "x", "y"}

IsName(t) == t # << >> /\ \A k \in 1..Len(t) : t[k] \in Letters

Lookup(ctx, name) == IF name \in DOMAIN ctx THEN ctx[name] ELSE << >>

RECURSIVE RenderFrom(_, _, _)
RenderFrom(t, i, ctx) ==
    IF i > Len(t) THEN Some(<< >>)
    ELSE IF HasAt(t, i, Open2)
         THEN LET ends == { j \in (i + 2)..Len(t) : HasAt(t, j, Close2) }
              IN  IF ends = {} THEN None
                  ELSE LET j == Min(ends)
                           name == Strip(Slice(t, i + 2, j - 1), Whitespace)
                           rest == RenderFrom(t, j + 2, ctx)
                       IN  IF ~IsName(name) \/ IsNone(rest) THEN None
                           ELSE Some(Lookup(ctx, name) \o Value(rest))
         ELSE LET rest == RenderFrom(t, i + 1, ctx)
              IN  IF IsNone(rest) THEN None ELSE Some(<< t[i] >> \o Value(rest))

Render(template_text, row) == RenderFrom(template_text, 1, row)

----------------------------------------------------------------------------
(* Recipient allow-list (client.py 143-171) *)

\* re.match('^' + re.escape(mask).replace('\*', '.*') + '$', email)
RECURSIVE MaskMatch(_, _)
MaskMatch(mask, email) ==
    IF mask = << >> THEN email = << >>
    ELSE IF mask[1] = "*"
         THEN \/ MaskMatch(Tail(mask), email)
              \/ email # << >> /\ email[1] # "\n" /\ MaskMatch(mask, Tail(email))
         ELSE email # << >> /\ email[1] = mask[1] /\ MaskMatch(Tail(mask), Tail(email))

\* A check that looks at the first address of the list only.
CheckEmailMaskFirstOnly(email, address_whitelist) ==
    LET first == Strip(Split(email, ",")[1], Whitespace \cup {"\n", "\t"})
    IN  IF \E w \in 1..Len(address_whitelist) : MaskMatch(address_whitelist[w], first)
        THEN None
        ELSE Some(Msg("does not match any of the allowed masks", << first >>))

\* check_email_mask: None when every address matches some mask, else the
\* message of the UserException raised for the first address that does not.
CheckEmailMask(email, address_whitelist) ==
    LET emails == [k \in 1..Len(Split(email, ",")) |->
                      Strip(Split(email, ",")[k], Whitespace \cup {"\n", "\t"})]
        bad == { k \in 1..Len(emails) :
                   \A w \in 1..Len(address_whitelist) :
                       ~MaskMatch(address_whitelist[w], emails[k]) }
    IN  IF bad = {} THEN None
        ELSE Some(Msg("does not match any of the allowed masks", << emails[Min(bad)] >>))

----------------------------------------------------------------------------
(* json.loads of an attachments column: a JSON array of one-character      *)
(* strings, ["f","g"]; None when the text is not such an array.             *)

Quote == "\""

JsonItem(t) == IF Len(t) = 3 /\ t[1] = Quote /\ t[3] = Quote THEN Some(t[2]) ELSE None

JsonLoads(t) ==
    IF Len(t) < 2 \/ t[1] # "[" \/ t[Len(t)] # "]" THEN None
    ELSE IF Len(t) = 2 THEN Some(<< >>)
    ELSE LET items == Split(Slice(t, 2, Len(t) - 1), ",")
         IN  IF \E k \in 1..Len(items) : IsNone(JsonItem(items[k])) THEN None
             ELSE Some([k \in 1..Len(items) |-> << Value(JsonItem(items[k])) >>])

\* json.dumps of a list of one-character strings: ["f", "h"]
RECURSIVE JsonDumpsItems(_)
JsonDumpsItems(names) ==
    IF names = << >> THEN << >>
    ELSE << Quote >> \o Head(names) \o << Quote >>
         \o (IF Tail(names) = << >> THEN << >> ELSE << ",", " " >>)
         \o JsonDumpsItems(Tail(names))

JsonDumps(names) == << "[" >> \o JsonDumpsItems(names) \o << "]" >>

----------------------------------------------------------------------------
(* Inputs of a run: texts, rows and configurations *)

AddrA == << "a", "@", "x" >>
AddrB == << "b", "@", "y" >>
MaskX == << "*", "@", "x" >>
Sender == << "s", "@", "x" >>

TplN == << OB, OB, "n", CB, CB >>
TplM == << OB, OB, "m", CB, CB >>
\* A text jinja2 cannot parse; it holds no placeholder.
TplBad == << OB, OB >>

FileF == << "f" >>
FileG == << "g" >>
FileH == << "h" >>
JsonF == << "[", Quote, "f", Quote, "]" >>
JsonG == << "[", Quote, "g", Quote, "]" >>

\* Column names of the e-mail data table (reader.fieldnames) and the columns
\* the configuration designates.
ColE == << "e" >>
ColN == << "n" >>
ColS == << "s" >>
ColP == << "p" >>
ColH == << "h" >>
ColA == << "a" >>

TableRow(e, n, s_, p, h, a) ==
    (ColE :> e) @@ (ColN :> n) @@ (ColS :> s_) @@ (ColP :> p) @@ (ColH :> h) @@ (ColA :> a)

Fieldnames == {ColE, ColN, ColS, ColP, ColH, ColA}

\* Rows a csv.DictReader over the e-mail data table can yield: a good row; a
\* row whose body template names a missing column; a row with a recipient
\* outside MaskX and a subject that cannot be rendered; and a row that lists
\* an attachment that was not provided and whose HTML template names a
\* missing column.
RowGood == TableRow(AddrA, << "A" >>, TplN, TplN, TplN, JsonF)
RowMissing == TableRow(AddrA, << "A" >>, TplN, TplM, TplN, JsonF)
RowOther == TableRow(AddrB, << "B" >>, TplBad, TplN, TplN, JsonF)
RowUnknown == TableRow(AddrA, << "A" >>, TplN, TplN, TplM, JsonG)

TableRows == {RowGood, RowMissing, RowOther, RowUnknown}

\* Non-empty address_whitelist overrides.
Whitelists == { << MaskX >> }

\* basic_options.recipient_email_addresses: unset, or a comma-separated list.
RecipientLists ==
    { None,
      Some(AddrA \o << "," >> \o AddrB),
      Some(AddrB \o << "," >> \o AddrA) }

\* What send_email can do: return, or raise an exception with some message
\* (str(e) may be empty).
SendOutcomes ==
    { [ok |-> TRUE, msg |-> NoMessage],
      [ok |-> FALSE, msg |-> Msg("refused", << >>)],
      [ok |-> FALSE, msg |-> NoMessage] }

BasicConfigurations ==
    [ configuration_type : {"basic"},
      continue_on_error : BOOLEAN,
      dry_run : BOOLEAN,
      has_table : {FALSE},
      recipient_email_addresses : RecipientLists,
      include_attachments : BOOLEAN,
      subject_source : {"from_table"},
      subject_template_definition : {None},
      message_body_source : {"from_table"},
      use_html_template : {FALSE},
      plaintext_template_definition : {None},
      html_template_definition : {None},
      attachments_source : {"all_input_files"},
      address_whitelist : {<< >>} \cup Whitelists,
      disable_attachments : BOOLEAN ]

\* Advanced configurations leave the options of a source they do not use unset;
\* one without its e-mail data table is taken with the default sources.
AdvancedConfigurations ==
    { c \in [ configuration_type : {"advanced"},
              continue_on_error : BOOLEAN,
              dry_run : BOOLEAN,
              has_table : BOOLEAN,
              recipient_email_addresses : {None, Some(AddrA \o << "," >> \o AddrB)},
              include_attachments : {TRUE},
              subject_source : {"from_table", "from_template_definition"},
              subject_template_definition : {None, Some(TplN), Some(TplM)},
              message_body_source :
                  {"from_table", "from_template_file", "from_template_definition"},
              use_html_template : BOOLEAN,
              plaintext_template_definition : {None, Some(TplN), Some(TplM)},
              html_template_definition : {None, Some(TplN), Some(TplM)},
              attachments_source : {"all_input_files", "from_table"},
              address_whitelist : {<< >>} \cup Whitelists,
              disable_attachments : BOOLEAN ] :
        /\ IsNone(c.subject_template_definition)
              <=> c.subject_source = "from_table"
        /\ IsNone(c.plaintext_template_definition)
              <=> c.message_body_source # "from_template_definition"
        /\ IsNone(c.html_template_definition)
              <=> ~(c.message_body_source = "from_template_definition"
                    /\ c.use_html_template)
        /\ c.has_table => IsNone(c.recipient_email_addresses)
        /\ ~c.has_table => /\ c.subject_source = "from_table"
                           /\ c.message_body_source = "from_table"
                           /\ ~c.use_html_template
                           /\ c.attachments_source = "all_input_files" }

Configurations == BasicConfigurations \cup AdvancedConfigurations

\* basic_options.subject and basic_options.message_body
BasicSubject == << "h", "i" >>
BasicBody == << "y", "o" >>

\* Content of the shared template files, when they can be read.
PlaintextFileText == TplN
HtmlFileText == TplN

----------------------------------------------------------------------------
(* The calls of the row loop on the texts above, each tabulated once over   *)
(* the arguments a run can pass.                                            *)

TemplateTexts ==
    { r[col] : r \in TableRows, col \in {ColS, ColP, ColH} }
        \cup {TplN, TplM, PlaintextFileText, HtmlFileText}

ValidateTable == [t \in TemplateTexts |-> ValidateTemplateText(t, Fieldnames)]
RenderTable == [t \in TemplateTexts, r \in TableRows |-> Render(t, r)]
MaskTable ==
    [e \in { r[ColE] : r \in TableRows } \cup {AddrA, AddrB}, w \in Whitelists |->
        CheckEmailMask(e, w)]
JsonTable == [t \in { r[ColA] : r \in TableRows } |-> JsonLoads(t)]

\* self._validate_template_text(template_text, columns) at component.py 212,
\* 220, 223, 244, 253 and 257; columns is always set(reader.fieldnames).
Validated(template_text, columns) == ValidateTable[template_text]

\* Template(template_text).render(row) at component.py 247, 259 and 262
Rendered(template_text, row) == RenderTable[template_text, row]

\* self.check_email_mask(recipient_email_address) at client.py 71
Checked(recipient_email_address, address_whitelist) ==
    IF << recipient_email_address, address_whitelist >> \in DOMAIN MaskTable
    THEN MaskTable[recipient_email_address, address_whitelist]
    ELSE CheckEmailMask(recipient_email_address, address_whitelist)

\* json.loads(row[attachments_column]) at component.py 269
Loaded(text) == JsonTable[text]

----------------------------------------------------------------------------
(* SMTPClient.build_email (client.py 64-94) *)

\* Building without consulting the allow-list.
AllowListSkipped(cl, recipient_email_address) == None

\* client.py 70-71: the allow-list check, when an allow-list is configured.
AllowListError(cl, recipient_email_address) ==
    IF cl.address_whitelist # << >>
    THEN Checked(recipient_email_address, cl.address_whitelist)
    ELSE None

\* err: the message of the exception raised, if any; email: the message built.
BuildEmail(cl, recipient_email_address, subject, rendered_plaintext_message, rendered_html_message, attachments_paths_by_filename) ==
    [ err |-> AllowListError(cl, recipient_email_address),
      email |->
        [ From |-> cl.sender_email_address,
          To |-> recipient_email_address,
          Subject |-> subject,
          plain |-> rendered_plaintext_message,
          html |-> rendered_html_message,
          attachments |->
              IF attachments_paths_by_filename # << >> /\ ~cl.disable_attachments
              THEN attachments_paths_by_filename
              ELSE << >> ] ]

----------------------------------------------------------------------------
(* One iteration of the row loop of Component.send_emails                  *)
(* (component.py 230-330), as the set of results it can have:              *)
(*   rec     the ledger row written                                        *)
(*   steps   the steps performed, in order                                 *)
(*   locals  the function's local names after the iteration                *)
(*   send    what send_email was called with and did, None if not called   *)
(*   errors  whether the iteration set _results_writer.errors              *)
(*   client  self._client after the iteration                              *)
(*   brk     whether the iteration left the loop by break                  *)

RESULT_TABLE_COLUMNS ==
    { "status", "recipient_email_address", "sender_email_address", "subject",
      "plaintext_message_body", "html_message_body", "attachment_filenames",
      "error_message" }

general_error_row ==
    [ status |-> "ERROR",
      recipient_email_address |-> << >>,
      sender_email_address |-> << >>,
      subject |-> << >>,
      plaintext_message_body |-> << >>,
      html_message_body |-> << >>,
      attachment_filenames |-> << >> ]

\* Leaving the loop after any failed row.
BreakAlways(c) == TRUE

\* component.py 329-330: a failed row ends the loop unless continue_on_error.
BreakOnError(c) == ~c.continue_on_error

\* Leaving the loop after a failed send whatever continue_on_error says.
BreakAfterAnySendError(c, error_message) == Truthy(error_message)

\* component.py 318-319: a row whose send left an error message ends the loop
\* unless continue_on_error.
BreakAfterSend(c, error_message) == Truthy(error_message) /\ ~c.continue_on_error

\* Sending also in a dry run.
SendAlways(c) == TRUE

\* component.py 281: the send is skipped in a dry run.
SendAttempted(c) == ~c.dry_run

\* Writing the record before the send.
RecordBeforeSend(attempted) ==
    << "build", "record" >> \o (IF attempted THEN << "send" >> ELSE << >>)

\* component.py 272-317: the steps from build_email to writerow, in order.
DeliverSteps(attempted) ==
    << "build" >> \o (IF attempted THEN << "send" >> ELSE << >>) \o << "record" >>

\* component.py 306-307: attachments_to_log, as csv.DictWriter writes it.
AttachmentsToLog(custom_attachments_paths_by_filename) ==
    IF custom_attachments_paths_by_filename # << >>
    THEN JsonDumps(custom_attachments_paths_by_filename)
    ELSE << "[", "]" >>

\* Leaving the base map as it is.
NarrowMapSkipped(attachments_paths_by_filename, filenames) ==
    attachments_paths_by_filename

\* component.py 267-270: the base map restricted to the listed file names, in
\* the order they are listed (every one of them being a key of the base map).
NarrowMap(attachments_paths_by_filename, filenames) == Dedup(filenames)

\* A subject that cannot be rendered raising out of the row.
SubjectRenderRaises(subject_template_text, rendered) == rendered

\* component.py 246-249: the rendered subject, or the template text when
\* rendering raises.
SubjectOrFallback(subject_template_text, rendered) ==
    IF IsNone(rendered) THEN Some(subject_template_text) ELSE rendered

\* Taking the HTML template column whether or not HTML is enabled.
HtmlTemplateColumnAlways(c) == Some(ColH)

\* component.py 216-217: the HTML template column, only with use_html_template.
HtmlTemplateColumn(c) == IF c.use_html_template THEN Some(ColH) ELSE None

\* An except branch that writes the ERROR row without setting
\* _results_writer.errors.
RowFailedUnflagged(c, cl, L, steps, recipient_email_address, e) ==
    [ rec |-> [ general_error_row EXCEPT
                  !.sender_email_address = cl.sender_email_address,
                  !.recipient_email_address = recipient_email_address ]
              @@ [ error_message |-> e ],
      steps |-> Append(steps, "record"),
      locals |-> L,
      send |-> None,
      errors |-> FALSE,
      client |-> cl,
      brk |-> BreakOnError(c) ]

\* component.py 322-330: the except branch of the row.
RowFailed(c, cl, L, steps, recipient_email_address, e) ==
    [ rec |-> [ general_error_row EXCEPT
                  !.sender_email_address = cl.sender_email_address,
                  !.recipient_email_address = recipient_email_address ]
              @@ [ error_message |-> e ],
      steps |-> Append(steps, "record"),
      locals |-> L,
      send |-> None,
      errors |-> TRUE,
      client |-> cl,
      brk |-> BreakOnError(c) ]

\* A send that opens a new connection handle after a failure.
SendEmailReconnects(cl, email_, attachments_paths, so) ==
    [ client |-> IF so.ok THEN cl
                 ELSE [cl EXCEPT !.smtp_server = Some(Value(cl.smtp_server) + 1)],
      call |-> [ ok |-> so.ok, msg |-> so.msg, smtp_server |-> cl.smtp_server,
                 email |-> email_, attachments_paths |-> attachments_paths ] ]

\* SMTPClient.send_email (client.py 102-103, 110-111, 130-141): the message
\* goes out on self.smtp_server; so is what the server does with it.
SendEmail(cl, email_, attachments_paths, so) ==
    [ client |-> cl,
      call |-> [ ok |-> so.ok, msg |-> so.msg, smtp_server |-> cl.smtp_server,
                 email |-> email_, attachments_paths |-> attachments_paths ] ]

\* component.py 272-320: build, send unless dry_run, record.
Deliver(c, cl, L, steps, recipient_email_address, rendered_subject, rendered_plaintext_message, rendered_html_message, custom_attachments_paths_by_filename, so) ==
    LET b == BuildEmail(cl, recipient_email_address, rendered_subject,
                        rendered_plaintext_message, rendered_html_message,
                        custom_attachments_paths_by_filename)
        email_ == b.email
        attempted == SendAttempted(c)
        attachment_paths == IF cl.disable_attachments THEN None
                            ELSE Some(custom_attachments_paths_by_filename)
        sending == SendEmail(cl, email_, attachment_paths, so)
        raised == attempted /\ ~sending.call.ok
        status == IF raised THEN "ERROR" ELSE "OK"
        error_message == IF raised THEN sending.call.msg ELSE NoMessage
    IN  IF ~IsNone(b.err)
        THEN RowFailed(c, cl, L, Append(steps, "build"), recipient_email_address,
                       Value(b.err))
        ELSE [ rec |-> [ status |-> status,
                         recipient_email_address |-> email_.To,
                         sender_email_address |-> email_.From,
                         subject |-> email_.Subject,
                         plaintext_message_body |-> rendered_plaintext_message,
                         html_message_body |->
                             IF IsNone(rendered_html_message) THEN << >>
                             ELSE Value(rendered_html_message),
                         attachment_filenames |->
                             AttachmentsToLog(custom_attachments_paths_by_filename),
                         error_message |-> error_message ],
               steps |-> steps \o DeliverSteps(attempted),
               locals |-> L,
               send |-> IF attempted THEN Some(sending.call) ELSE None,
               errors |-> raised,
               client |-> IF attempted THEN sending.client ELSE cl,
               brk |-> BreakAfterSend(c, error_message) ]

\* component.py 264-270: the attachments of the row, then Deliver.
AdvancedAttachments(c, cl, base, L, steps, row, recipient_email_address, rendered_subject, rendered_plaintext_message, rendered_html_message, so) ==
    LET narrow == ~cl.disable_attachments /\ c.attachments_source # "all_input_files"
        listed == Loaded(row[ColA])
        unknown == { k \in 1..Len(Value(listed)) : Value(listed)[k] \notin Range(base) }
        steps1 == IF narrow THEN Append(steps, "attachments") ELSE steps
    IN  IF ~narrow
        THEN Deliver(c, cl, L, steps1, recipient_email_address, rendered_subject,
                     rendered_plaintext_message, rendered_html_message, base, so)
        ELSE IF IsNone(listed)
        THEN RowFailed(c, cl, L, steps1, recipient_email_address,
                       Msg("JSONDecodeError", << >>))
        ELSE IF unknown # {}
        THEN RowFailed(c, cl, L, steps1, recipient_email_address,
                       Msg("KeyError", << Value(listed)[Min(unknown)] >>))
        ELSE Deliver(c, cl, L, steps1, recipient_email_address, rendered_subject,
                     rendered_plaintext_message, rendered_html_message,
                     NarrowMap(base, Value(listed)), so)

\* component.py 259-262: render the bodies, then the attachments.
AdvancedRender(c, cl, base, L, steps, row, recipient_email_address, rendered_subject, so) ==
    LET plain == IF IsNone(L.plaintext_template_text) THEN None
                 ELSE Rendered(Value(L.plaintext_template_text), row)
        html == IF IsNone(L.html_template_text) THEN None
                ELSE Rendered(Value(L.html_template_text), row)
        steps1 == Append(steps, "render_plaintext")
        steps2 == IF c.use_html_template THEN Append(steps1, "render_html") ELSE steps1
    IN  IF IsNone(L.plaintext_template_text)
        THEN RowFailed(c, cl, L, steps1, recipient_email_address,
                       Msg("UnboundLocalError plaintext_template_text", << >>))
        ELSE IF IsNone(plain)
        THEN RowFailed(c, cl, L, steps1, recipient_email_address,
                       Msg("TemplateSyntaxError", << >>))
        ELSE IF c.use_html_template /\ IsNone(L.html_template_text)
        THEN RowFailed(c, cl, L, steps2, recipient_email_address,
                       Msg("UnboundLocalError html_template_text", << >>))
        ELSE IF c.use_html_template /\ IsNone(html)
        THEN RowFailed(c, cl, L, steps2, recipient_email_address,
                       Msg("TemplateSyntaxError", << >>))
        ELSE AdvancedAttachments(c, cl, base, L, steps2, row, recipient_email_address,
                                 rendered_subject, Value(plain),
                                 IF c.use_html_template THEN html ELSE None, so)

\* component.py 251-257: the per-row body templates, validated; then render.
AdvancedBody(c, cl, base, L, steps, row, recipient_email_address, rendered_subject, so) ==
    LET from_row == ~IsNone(L.plaintext_template_column)
        with_html == from_row /\ ~IsNone(L.html_template_column)
        L1 == IF from_row
              THEN [L EXCEPT !.plaintext_template_text =
                                 Some(row[Value(L.plaintext_template_column)])]
              ELSE L
        L2 == IF with_html
              THEN [L1 EXCEPT !.html_template_text =
                                  Some(row[Value(L.html_template_column)])]
              ELSE L1
        steps1 == IF from_row
                  THEN steps \o << "resolve_plaintext", "validate_plaintext" >>
                  ELSE steps
        steps2 == IF with_html
                  THEN steps1 \o << "resolve_html", "validate_html" >>
                  ELSE steps1
        bad_plain == IF from_row
                     THEN Validated(Value(L1.plaintext_template_text),
                                               Value(L.columns))
                     ELSE {}
        bad_html == IF with_html
                    THEN Validated(Value(L2.html_template_text),
                                              Value(L.columns))
                    ELSE {}
    IN  IF bad_plain # {}
        THEN { RowFailed(c, cl, L1, steps1, recipient_email_address, e) : e \in bad_plain }
        ELSE IF bad_html # {}
        THEN { RowFailed(c, cl, L2, steps2, recipient_email_address, e) : e \in bad_html }
        ELSE { AdvancedRender(c, cl, base, L2, steps2, row, recipient_email_address,
                              rendered_subject, so) }

\* component.py 242-249: the per-row subject template, validated and rendered
\* (a rendering failure falls back to the template text); then the bodies.
AdvancedRow(c, cl, base, L, row, recipient_email_address, so) ==
    LET from_row == ~IsNone(L.subject_column)
        L1 == IF from_row
              THEN [L EXCEPT !.subject_template_text = Some(row[Value(L.subject_column)])]
              ELSE L
        steps1 == IF from_row THEN << "resolve_subject", "validate_subject" >> ELSE << >>
        steps2 == Append(steps1, "render_subject")
        bad == IF from_row
               THEN Validated(Value(L1.subject_template_text), Value(L.columns))
               ELSE {}
        rendered == Rendered(Value(L1.subject_template_text), row)
        rendered_subject == SubjectOrFallback(Value(L1.subject_template_text), rendered)
    IN  IF bad # {}
        THEN { RowFailed(c, cl, L1, steps1, recipient_email_address, e) : e \in bad }
        ELSE IF IsNone(L1.subject_template_text)
        THEN { RowFailed(c, cl, L1, steps2, recipient_email_address,
                         Msg("UnboundLocalError subject_template_text", << >>)) }
        ELSE IF IsNone(rendered_subject)
        THEN { RowFailed(c, cl, L1, steps2, recipient_email_address,
                         Msg("TemplateSyntaxError", << >>)) }
        ELSE AdvancedBody(c, cl, base, L1, steps2, row, recipient_email_address,
                          Value(rendered_subject), so)

\* component.py 230-330: one row.  is_dict: the reader is a csv.DictReader.
RowOutcomes(c, cl, base, L, is_dict, row, so) ==
    LET recipient_email_address == IF is_dict THEN row[ColE] ELSE row
    IN  IF c.configuration_type # "advanced"
        THEN { Deliver(c, cl, L, << >>, recipient_email_address, BasicSubject,
                       BasicBody, None, base, so) }
        ELSE AdvancedRow(c, cl, base, L, row, recipient_email_address, so)

----------------------------------------------------------------------------
(* The part of Component.send_emails before the row loop                   *)
(* (component.py 188-228), as the set of results it can have:              *)
(*   err     the message of the UserException raised, if any               *)
(*   locals  the function's local names on entering the loop               *)
(*   reader  the row source                                                *)

NoLocals ==
    [ columns |-> None, subject_column |-> None,
      plaintext_template_column |-> None, html_template_column |-> None,
      subject_template_text |-> None, plaintext_template_text |-> None,
      html_template_text |-> None ]

NoReader == [kind |-> "none", items |-> << >>]

\* _read_template_text (component.py 400-420), the storage being readable.
ReadTemplateText(c, plaintext) ==
    IF c.message_body_source = "from_template_file"
    THEN (IF plaintext THEN PlaintextFileText ELSE HtmlFileText)
    ELSE Value(IF plaintext THEN c.plaintext_template_definition
               ELSE c.html_template_definition)

SetupFailed(L, e) == [err |-> Some(e), locals |-> L, reader |-> NoReader]

SetupResults(c, storage_ok) ==
    IF c.has_table
    THEN LET L0 == [NoLocals EXCEPT !.columns = Some(Fieldnames)]
             shared_subject == c.subject_source # "from_table"
             L1 == IF shared_subject
                   THEN [L0 EXCEPT !.subject_template_text = c.subject_template_definition]
                   ELSE [L0 EXCEPT !.subject_column = Some(ColS)]
             bad_subject == IF shared_subject
                            THEN Validated(Value(L1.subject_template_text),
                                                      Fieldnames)
                            ELSE {}
             shared_body == c.message_body_source # "from_table"
             with_html == c.use_html_template
             L2 == IF shared_body
                   THEN [L1 EXCEPT !.plaintext_template_text =
                                       Some(ReadTemplateText(c, TRUE))]
                   ELSE [L1 EXCEPT !.plaintext_template_column = Some(ColP),
                                   !.html_template_column = HtmlTemplateColumn(c)]
             bad_plain == IF shared_body
                          THEN Validated(Value(L2.plaintext_template_text),
                                                    Fieldnames)
                          ELSE {}
             L3 == IF shared_body /\ with_html
                   THEN [L2 EXCEPT !.html_template_text = Some(ReadTemplateText(c, FALSE))]
                   ELSE L2
             bad_html == IF shared_body /\ with_html
                         THEN Validated(Value(L3.html_template_text), Fieldnames)
                         ELSE {}
         IN  IF bad_subject # {}
             THEN { SetupFailed(L1, e) : e \in bad_subject }
             ELSE IF c.message_body_source = "from_template_file" /\ ~storage_ok
             THEN { SetupFailed(L1, Msg("No files found in the storage", << >>)) }
             ELSE IF bad_plain # {}
             THEN { SetupFailed(L2, e) : e \in bad_plain }
             ELSE IF bad_html # {}
             THEN { SetupFailed(L3, e) : e \in bad_html }
             ELSE { [err |-> None, locals |-> L3,
                     reader |-> [kind |-> "dict", items |-> << >>]] }
    ELSE IF IsNone(c.recipient_email_addresses)
         THEN { SetupFailed(NoLocals, Msg("No input table found", << >>)) }
         ELSE { [err |-> None, locals |-> NoLocals,
                 reader |-> [kind |-> "list",
                             items |-> Split(Value(c.recipient_email_addresses), ",")]] }

----------------------------------------------------------------------------
(* Component.init_client (component.py 108-148) *)

Host1 == [host |-> "smtp.one", port |-> "465"]
Host2 == [host |-> "smtp.two", port |-> "465"]
Host3 == [host |-> "smtp.one", port |-> "587"]

\* An allow-list of hosts that compares the host and not the port.
ValidateAllowedHostsHostOnly(allowed_hosts, creds) ==
    allowed_hosts # << >> =>
        \E k \in 1..Len(allowed_hosts) : allowed_hosts[k].host = creds.host

\* validate_allowed_hosts: TRUE when it returns, FALSE when it raises.
ValidateAllowedHosts(allowed_hosts, creds) ==
    allowed_hosts # << >> =>
        \E k \in 1..Len(allowed_hosts) :
            allowed_hosts[k].host = creds.host /\ allowed_hosts[k].port = creds.port

\* SMTPClient.__init__ (client.py 49-62): the transport strategy, None when
\* the constructor raises.
Strategy(use_oauth, connection_protocol) ==
    IF use_oauth THEN Some("o365")
    ELSE IF connection_protocol = "SSL" THEN Some("ssl")
    ELSE IF connection_protocol = "TLS" THEN Some("tls")
    ELSE None

----------------------------------------------------------------------------
(* The run *)

VARIABLES
    conf,        \* the configuration of the run (parameters and stack overrides)
    pc,          \* where Component.run is
    outcome,     \* how the run ended: kind and message of the exception, if any
    client,      \* self._client, None before it is constructed
    transport,   \* state of the connection handle
    opens,       \* number of connection handles opened
    base,        \* attachments_paths_by_filename, as the file names in key order
    file,        \* results.csv: "absent", "open" or "closed"
    ledger,      \* the rows written to results.csv
    errors,      \* self._results_writer.errors
    manifest,    \* whether the manifest of results.csv is written
    reader,      \* the row source of send_emails
    locals,      \* local names of send_emails that outlive a loop iteration
    rows,        \* the rows the reader has yielded
    steps,       \* per yielded row, the steps performed on it
    sent,        \* per yielded row, the send_email call made for it, if any
    exit         \* how the row loop ended: "none", "break" or "exhausted"

vars == << conf, pc, outcome, client, transport, opens, base, file, ledger, errors,
           manifest, reader, locals, rows, steps, sent, exit >>

Running == [kind |-> "running", msg |-> NoMessage]
Raised(kind, msg) == [kind |-> kind, msg |-> msg]

Init ==
    /\ conf \in Configurations
    /\ pc = "init_configuration"
    /\ outcome = Running
    /\ client = None
    /\ transport = "Uninitialized"
    /\ opens = 0
    /\ base = << >>
    /\ file = "absent"
    /\ ledger = << >>
    /\ errors = FALSE
    /\ manifest = FALSE
    /\ reader = NoReader
    /\ locals = NoLocals
    /\ rows = << >>
    /\ steps = << >>
    /\ sent = << >>
    /\ exit = "none"

\* component.py 68, 91-93: an invalid configuration raises a UserException.
InitConfiguration ==
    /\ pc = "init_configuration"
    /\ \E valid \in BOOLEAN :
          IF valid
          THEN pc' = "init_client" /\ UNCHANGED outcome
          ELSE /\ pc' = "done"
               /\ outcome' = Raised("UserException", Msg("invalid configuration", << >>))
    /\ UNCHANGED << conf, client, transport, opens, base, file, ledger, errors,
                    manifest, reader, locals, rows, steps, sent, exit >>

\* init_client carrying on after a failed init_smtp_server.
ConnectErrorSwallowed(connected) == None

\* component.py 137 with client.py 96-128: init_smtp_server raises when the
\* connection cannot be established; init_client lets the exception through.
ConnectError(connected) ==
    IF connected THEN None
    ELSE Some(Raised("Exception", Msg("connection failed", << >>)))

\* component.py 108-137 with client.py 24-62 and 96-128: what init_client
\* leaves behind.  connected: whether init_smtp_server returns.
InitClientResult(c, allowed_hosts, creds, use_oauth, connection_protocol, connected) ==
    LET strategy == Strategy(use_oauth, connection_protocol)
        constructed == [ sender_email_address |-> Sender,
                         address_whitelist |-> c.address_whitelist,
                         disable_attachments |-> c.disable_attachments,
                         smtp_server |-> None ]
    IN  IF ~ValidateAllowedHosts(allowed_hosts, creds)
        THEN [ err |-> Some(Raised("UserException", Msg("Host is not allowed", << creds.host, creds.port >>))),
               client |-> None, transport |-> "Uninitialized", opened |-> 0 ]
        ELSE IF IsNone(strategy)
        THEN [ err |-> Some(Raised("UserException",
                                   Msg("Invalid connection protocol", << >>))),
               client |-> None, transport |-> "Uninitialized", opened |-> 0 ]
        ELSE IF ~connected
        THEN [ err |-> ConnectError(connected),
               client |-> Some(constructed), transport |-> "Uninitialized", opened |-> 0 ]
        ELSE [ err |-> ConnectError(connected),
               client |-> Some([constructed EXCEPT !.smtp_server = Some(opens + 1)]),
               transport |-> "Connected", opened |-> 1 ]

InitClient ==
    /\ pc = "init_client"
    /\ \E allowed_hosts \in {<< >>, << Host1 >>}, creds \in {Host1, Host2},
          use_oauth \in BOOLEAN, connection_protocol \in {"SSL", "TLS", "FTP"},
          connected \in BOOLEAN :
          LET r == InitClientResult(conf, allowed_hosts, creds, use_oauth,
                                    connection_protocol, connected)
          IN  /\ client' = r.client
              /\ transport' = r.transport
              /\ opens' = opens + r.opened
              /\ IF IsNone(r.err)
                 THEN pc' = "load_inputs" /\ UNCHANGED outcome
                 ELSE pc' = "done" /\ outcome' = Value(r.err)
    /\ UNCHANGED << conf, base, file, ledger, errors, manifest, reader, locals,
                    rows, steps, sent, exit >>

\* component.py 70-77: the input table, the template files and the attachments.
\* found: whether a configured template file is among the input files.
LoadInputs ==
    /\ pc = "load_inputs"
    /\ \E found \in BOOLEAN :
          IF conf.message_body_source = "from_template_file" /\ ~found
          THEN /\ pc' = "done"
               /\ outcome' = Raised("Exception", Msg("StopIteration", << >>))
               /\ UNCHANGED base
          ELSE /\ pc' = "open_results"
               /\ base' = IF conf.configuration_type = "basic" /\ ~conf.include_attachments
                          THEN << >> ELSE << FileF, FileH >>
               /\ UNCHANGED outcome
    /\ UNCHANGED << conf, client, transport, opens, file, ledger, errors, manifest,
                    reader, locals, rows, steps, sent, exit >>

\* component.py 79-83: results.csv is created and its header written.
OpenResults ==
    /\ pc = "open_results"
    /\ file' = "open"
    /\ ledger' = << >>
    /\ errors' = FALSE
    /\ pc' = "setup"
    /\ UNCHANGED << conf, outcome, client, transport, opens, base, manifest, reader,
                    locals, rows, steps, sent, exit >>

\* component.py 188-228: an exception raised here leaves run through the
\* with block, which closes results.csv.
SendEmailsSetup ==
    /\ pc = "setup"
    /\ \E storage_ok \in BOOLEAN : \E r \in SetupResults(conf, storage_ok) :
          /\ locals' = r.locals
          /\ reader' = r.reader
          /\ IF IsNone(r.err)
             THEN pc' = "loop" /\ UNCHANGED << outcome, file >>
             ELSE /\ pc' = "done"
                  /\ outcome' = Raised("UserException", Value(r.err))
                  /\ file' = "closed"
    /\ UNCHANGED << conf, client, transport, opens, base, ledger, errors, manifest,
                    rows, steps, sent, exit >>

\* The rows the reader can yield next.
NextRows ==
    IF reader.kind = "dict" THEN TableRows
    ELSE IF reader.items # << >> THEN { Head(reader.items) }
    ELSE {}

\* A writer that rewrites the last row instead of appending.
WriteRowOver(written, rec) ==
    IF written = << >> THEN << rec >> ELSE [written EXCEPT ![Len(written)] = rec]

\* self._results_writer.writerow (component.py 309 and 323)
WriteRow(written, rec) == Append(written, rec)

\* component.py 230-330: one iteration of the row loop.  A break leaves
\* send_emails (332-335) and the with block of run (80-85), which closes
\* results.csv.
ProcessRow ==
    /\ pc = "loop"
    /\ Len(rows) < MaxRows
    /\ \E row \in NextRows, so \in SendOutcomes :
          \E o \in RowOutcomes(conf, Value(client), base, locals,
                               reader.kind = "dict", row, so) :
             /\ rows' = Append(rows, row)
             /\ reader' = IF reader.kind = "dict" THEN reader
                          ELSE [reader EXCEPT !.items = Tail(reader.items)]
             /\ ledger' = WriteRow(ledger, o.rec)
             /\ steps' = Append(steps, o.steps)
             /\ sent' = Append(sent, o.send)
             /\ locals' = o.locals
             /\ errors' = (errors \/ o.errors)
             /\ client' = Some(o.client)
             /\ opens' = IF o.client.smtp_server = Value(client).smtp_server
                         THEN opens ELSE opens + 1
             /\ exit' = IF o.brk THEN "break" ELSE exit
             /\ file' = IF o.brk THEN "closed" ELSE file
             /\ pc' = IF o.brk THEN "write_manifest" ELSE "loop"
    /\ UNCHANGED << conf, outcome, transport, base, manifest >>

\* component.py 230: the reader has no further row; send_emails returns
\* (332-335) and the with block of run (80-85) closes results.csv.
ReaderExhausted ==
    /\ pc = "loop"
    /\ NextRows = {} \/ reader.kind = "dict"
    /\ exit' = "exhausted"
    /\ file' = "closed"
    /\ pc' = "write_manifest"
    /\ UNCHANGED << conf, outcome, client, transport, opens, base, ledger,
                    errors, manifest, reader, locals, rows, steps, sent >>

\* component.py 86-89: the manifest, then the outcome of the run.
Finish ==
    /\ pc = "write_manifest"
    /\ manifest' = TRUE
    /\ outcome' = IF errors
                  THEN Raised("UserException", Msg("Some emails couldn't be sent", << >>))
                  ELSE Raised("none", NoMessage)
    /\ pc' = "done"
    /\ UNCHANGED << conf, client, transport, opens, base, file, ledger, errors,
                    reader, locals, rows, steps, sent, exit >>

Next ==
    \/ InitConfiguration
    \/ InitClient
    \/ LoadInputs
    \/ OpenResults
    \/ SendEmailsSetup
    \/ ProcessRow
    \/ ReaderExhausted
    \/ Finish

Spec == Init /\ [][Next]_vars

\* component.py 469-470: Component.__exit__ closes the connection handle.
\* Nothing calls it: the entry point (component.py 603-613) runs
\* comp.execute_action() outside any with statement, so it is no step of a run
\* and no disjunct of Next.
Exit ==
    /\ transport = "Connected"
    /\ transport' = "Closed"
    /\ UNCHANGED << conf, pc, outcome, client, opens, base, file, ledger, errors,
                    manifest, reader, locals, rows, steps, sent, exit >>

----------------------------------------------------------------------------
(* Vocabulary of the properties *)

Done == pc = "done"
LoopOver == exit # "none"
Processed == 1..Len(rows)
IsDict == reader.kind = "dict"
Recipient(i) == IF IsDict THEN rows[i][ColE] ELSE rows[i]
Attempted(i) == ~IsNone(sent[i])
SendFailed(i) == Attempted(i) /\ ~Value(sent[i]).ok
Status(i) == ledger[i].status

\* The local names of send_emails on entering the loop.
EntryLocals == (CHOOSE r \in SetupResults(conf, TRUE) : IsNone(r.err)).locals

\* What the server did with the send of row i (any outcome when none was made).
ServerDid(i) ==
    IF Attempted(i)
    THEN { [ok |-> Value(sent[i]).ok, msg |-> Value(sent[i]).msg] }
    ELSE SendOutcomes

\* The results row i can have when it is the only row of the run, under
\* configuration c, the server doing so.
Alone(c, i, so) == RowOutcomes(c, Value(client), base, EntryLocals, IsDict, rows[i], so)

----------------------------------------------------------------------------
\* C1: with continue_on_error enabled the loop never breaks; every row the
\* reader yields gets exactly one ledger row, so a run over N rows ends with N
\* ledger rows; a row that fails has status ERROR, and every row has the
\* status and content it has when processed on its own, whatever happened to
\* the other rows.
C1_ContinueOnError ==
    conf.continue_on_error =>
        /\ exit # "break"
        /\ Len(ledger) = Len(rows)
        /\ LoopOver =>
              /\ reader.kind = "list" => reader.items = << >>
              /\ \A i \in Processed :
                    \E so \in ServerDid(i) : \E o \in Alone(conf, i, so) :
                       /\ ledger[i] = o.rec
                       /\ o.errors \/ SendFailed(i) => Status(i) = "ERROR"

\* C1 witness: a finished run with continue_on_error whose first row failed
\* and whose second row went out.
C1_Witness ==
    /\ conf.continue_on_error /\ Done /\ exit = "exhausted"
    /\ Len(ledger) = 2
    /\ Status(1) = "ERROR" /\ Status(2) = "OK" /\ Attempted(2)

----------------------------------------------------------------------------
\* C2: with continue_on_error disabled, once a row has failed, the first
\* failed row k is the last row processed: the loop has ended, the ledger has
\* exactly k rows, the last of them ERROR, and the finished run has raised a
\* UserException.
C2_AbortAfterFirstFailure ==
    (~conf.continue_on_error /\ \E i \in Processed : Status(i) = "ERROR") =>
        LET k == Min({ i \in Processed : Status(i) = "ERROR" })
        IN  /\ Len(rows) = k
            /\ Len(ledger) = k
            /\ exit = "break"
            /\ Done => outcome.kind = "UserException"

----------------------------------------------------------------------------
NonDry(c) == [c EXCEPT !.dry_run = FALSE]

\* C3 as stated: the ledger of a dry run is, row by row, the ledger of the
\* same run with dry_run false except that every status is OK, and the dry
\* run sends nothing.
C3_DryRunSameLedger ==
    (conf.dry_run /\ LoopOver) =>
        \A i \in Processed :
            /\ ~Attempted(i)
            /\ \A so \in SendOutcomes : \E o \in Alone(NonDry(conf), i, so) :
                  ledger[i] = [o.rec EXCEPT !.status = "OK"]

\* C3 amended: a dry run sends nothing, and the ledger row it writes for an
\* input row is the row the run with dry_run false writes for it, except that
\* where that run's send fails the dry run records status OK and an empty
\* error_message; a row that fails before the send is the same ERROR row in
\* both.
C3_DryRunLedger ==
    (conf.dry_run /\ LoopOver) =>
        \A i \in Processed :
            /\ ~Attempted(i)
            /\ \A so \in SendOutcomes : \E o \in Alone(NonDry(conf), i, so) :
                  ledger[i] = IF ~IsNone(o.send) /\ ~so.ok
                              THEN [o.rec EXCEPT !.status = "OK",
                                                 !.error_message = NoMessage]
                              ELSE o.rec

\* C3 witness: a finished dry run with a failed row and a row recorded OK.
C3_Witness ==
    /\ conf.dry_run /\ Done /\ Len(ledger) = 2
    /\ Status(1) = "ERROR" /\ Status(2) = "OK"

----------------------------------------------------------------------------
\* A sequence without the elements equal to x.
Without(seq, x) == SelectSeq(seq, LAMBDA y : y # x)

\* The recipient of row i is outside a configured allow-list.
Disallowed(i) ==
    /\ conf.address_whitelist # << >>
    /\ ~IsNone(Checked(Recipient(i), conf.address_whitelist))

\* The subject and body of row i, rendered.
SubjectTemplate(i) == IF conf.subject_source = "from_table" THEN rows[i][ColS]
                      ELSE Value(conf.subject_template_definition)
BodyTemplate(i) == IF conf.message_body_source = "from_table" THEN rows[i][ColP]
                   ELSE ReadTemplateText(conf, TRUE)
RenderedSubject(i) ==
    IF conf.configuration_type = "basic" THEN BasicSubject
    ELSE IF IsNone(Rendered(SubjectTemplate(i), rows[i])) THEN SubjectTemplate(i)
    ELSE Value(Rendered(SubjectTemplate(i), rows[i]))
RenderedBody(i) ==
    IF conf.configuration_type = "basic" THEN BasicBody
    ELSE Value(Rendered(BodyTemplate(i), rows[i]))

\* C4 as stated: in a dry run no row is sent, every row is taken through
\* build_email and every row is recorded with status OK.
C4_DryRunAllOK ==
    conf.dry_run =>
        \A i \in Processed :
            /\ ~Attempted(i)
            /\ "build" \in Range(steps[i])
            /\ Status(i) = "OK"

\* C4 amended: in a dry run send_email is never invoked; each row is taken
\* through the steps of a normal run up to and including build_email (with
\* its allow-list check) or up to the first step that fails; a row whose
\* steps through build all succeed is recorded with status OK and its
\* rendered subject and body, and a row with a failed step is recorded as
\* ERROR.
C4_DryRunThroughBuild ==
    conf.dry_run =>
        \A i \in Processed :
            /\ ~Attempted(i)
            /\ "send" \notin Range(steps[i])
            /\ \A so \in SendOutcomes : \E o \in Alone(NonDry(conf), i, so) :
                  steps[i] = Without(o.steps, "send")
            /\ Disallowed(i) => Status(i) = "ERROR"
            /\ Status(i) = "OK" <=> ("build" \in Range(steps[i]) /\ ~Disallowed(i))
            /\ Status(i) = "OK" =>
                  /\ ledger[i].subject = RenderedSubject(i)
                  /\ ledger[i].plaintext_message_body = RenderedBody(i)
                  /\ ledger[i].error_message = NoMessage

\* C4 witness: a dry run that recorded a row as OK after building it under an
\* allow-list, and another row as ERROR.
C4_Witness ==
    /\ conf.dry_run /\ conf.address_whitelist # << >> /\ Len(ledger) = 2
    /\ Status(1) = "OK" /\ "build" \in Range(steps[1])
    /\ ledger[1].subject = << "A" >>
    /\ Status(2) = "ERROR"

----------------------------------------------------------------------------
\* C5: every step of a run either leaves the ledger alone or appends exactly
\* one record to it, the record of the row just read, leaving the earlier
\* records as they were; the ledger always has one record per processed row,
\* in the order the rows were read.
C5_LedgerAppendOnly ==
    [][ /\ Len(ledger') = Len(rows')
        /\ \A i \in 1..Len(rows') :
              ledger'[i].recipient_email_address
                  = (IF reader'.kind = "dict" THEN rows'[i][ColE] ELSE rows'[i])
        /\ \/ ledger' = ledger /\ rows' = rows
           \/ /\ Len(rows') = Len(rows) + 1
              /\ SubSeq(rows', 1, Len(rows)) = rows
              /\ SubSeq(ledger', 1, Len(ledger)) = ledger ]_vars

\* C5 witness: the loop is about to read a third row, two distinct rows
\* having been recorded.
C5_Witness ==
    /\ pc = "loop" /\ Len(ledger) = 2
    /\ ledger[1].recipient_email_address = AddrB
    /\ ledger[2].recipient_email_address = AddrA

----------------------------------------------------------------------------
\* C6: a finished run, also one that ended in a fatal abort, has produced
\* the results file.
C6_LedgerAlwaysProduced ==
    Done => file # "absent"

----------------------------------------------------------------------------
\* Row i trips over a template of its own that names a missing column.
MissingInRow(i) ==
    /\ conf.configuration_type = "advanced" /\ IsDict
    /\ \/ conf.subject_source = "from_table"
            /\ Validated(rows[i][ColS], Fieldnames) # {}
       \/ conf.message_body_source = "from_table"
            /\ Validated(rows[i][ColP], Fieldnames) # {}
       \/ conf.message_body_source = "from_table" /\ conf.use_html_template
            /\ Validated(rows[i][ColH], Fieldnames) # {}

\* Row i lists an attachment that is not in the base map, and the list is used.
UnknownAttachment(i) ==
    /\ conf.configuration_type = "advanced" /\ IsDict
    /\ conf.attachments_source = "from_table" /\ ~conf.disable_attachments
    /\ ~IsNone(Loaded(rows[i][ColA]))
    /\ ~(Range(Value(Loaded(rows[i][ColA]))) \subseteq Range(base))

\* A shared template (subject definition, body definition or file) of a run
\* over a table names a missing column.
MissingInShared ==
    /\ conf.configuration_type = "advanced" /\ conf.has_table
    /\ \/ conf.subject_source # "from_table"
            /\ Validated(Value(conf.subject_template_definition), Fieldnames) # {}
       \/ conf.message_body_source # "from_table"
            /\ Validated(ReadTemplateText(conf, TRUE), Fieldnames) # {}
       \/ conf.message_body_source # "from_table" /\ conf.use_html_template
            /\ Validated(ReadTemplateText(conf, FALSE), Fieldnames) # {}

\* C7 as stated, for the shared sources: a run that got as far as reading its
\* templates, one of them shared and naming a missing column, records the
\* failure as an ERROR ledger row.
C7_SharedTemplateRowLevel ==
    (Done /\ file # "absent" /\ MissingInShared
          /\ outcome.msg.kind # "No files found in the storage") =>
        \E i \in 1..Len(ledger) :
            Status(i) = "ERROR" /\ ledger[i].error_message.kind = "Missing columns"

\* C7 amended: a missing placeholder in a per-row (from_table) template, an
\* unknown attachment reference, a disallowed recipient and a send failure
\* are each recorded as an ERROR ledger row for the row concerned, and the
\* loop is left early only if continue_on_error is false.  A missing
\* placeholder in a shared template (file or definition) is not row-level:
\* it is raised once before the first row, ends the run with a UserException
\* and leaves the ledger empty.
C7_RowLevelErrors ==
    /\ \A i \in Processed :
          (MissingInRow(i) \/ UnknownAttachment(i) \/ Disallowed(i) \/ SendFailed(i))
              => Status(i) = "ERROR"
    /\ exit = "break" => ~conf.continue_on_error
    /\ (MissingInShared /\ file # "absent" /\ pc \notin {"setup"}) =>
          /\ Done /\ outcome.kind = "UserException"
          /\ ledger = << >> /\ rows = << >> /\ ~manifest

\* C7 witness: with continue_on_error, a row with a missing placeholder, then
\* a row whose send failed, then the end of the input.
C7_Witness ==
    /\ conf.continue_on_error /\ exit = "exhausted" /\ Len(rows) = 2
    /\ MissingInRow(1) /\ SendFailed(2)

----------------------------------------------------------------------------
\* C8: when init_smtp_server fails the run is over with that exception, and
\* nothing of the row loop has happened: no reader, no row read, no step
\* performed, no message built or sent, no ledger row.  No row is ever
\* processed on a transport that is not Connected.
C8_InitFailureBeforeRows ==
    /\ (~IsNone(client) /\ transport = "Uninitialized") =>
          /\ Done /\ outcome = Raised("Exception", Msg("connection failed", << >>))
          /\ file = "absent"
    /\ transport # "Connected" =>
          /\ reader = NoReader /\ rows = << >> /\ steps = << >>
          /\ sent = << >> /\ ledger = << >>

\* C8 witness: a run ended by the failure of init_smtp_server.
C8_Witness ==
    /\ Done /\ ~IsNone(client) /\ transport = "Uninitialized"
    /\ outcome.msg.kind = "connection failed"

----------------------------------------------------------------------------
\* C9: one connection handle is opened per run; no iteration of the row loop,
\* whether its send succeeds or fails, changes the client, its handle or the
\* transport state, and every send of the run is made on that one handle.
C9_SameHandle ==
    [][ /\ opens' <= 1
        /\ pc = "loop" =>
              /\ client' = client
              /\ transport' = "Connected"
              /\ opens' = opens
        /\ \A i \in 1..Len(sent') :
              ~IsNone(sent'[i]) => Value(sent'[i]).smtp_server = Some(1) ]_vars

\* C9 witness: a send that failed, followed by another send.
C9_Witness ==
    /\ Len(sent) = 2
    /\ SendFailed(1) /\ Attempted(2)
    /\ Value(sent[2]).smtp_server = Value(client).smtp_server

----------------------------------------------------------------------------
\* C10: a finished run that had connected has closed its connection handle.
C10_ClosedAtTeardown ==
    (Done /\ opens > 0) => transport = "Closed"

----------------------------------------------------------------------------
\* An attachment_filenames cell that lists no file.
NoFilenames == { << >>, << "[", "]" >> }

\* C11: with disable_attachments, for every row and every attachments source,
\* no attachment is attached to the message built or passed to the send, the
\* row's attachments column is not consulted, and the ledger row lists no
\* attachment file name.
C11_DisabledMeansEmpty ==
    conf.disable_attachments =>
        \A i \in Processed :
            /\ "attachments" \notin Range(steps[i])
            /\ Attempted(i) =>
                  /\ Value(sent[i]).email.attachments = << >>
                  /\ IsNone(Value(sent[i]).attachments_paths)
            /\ ledger[i].attachment_filenames \in NoFilenames

----------------------------------------------------------------------------
\* Row i got as far as its attachments column, which is in use and holds a
\* JSON list.
ListsAttachments(i) ==
    /\ conf.configuration_type = "advanced" /\ IsDict
    /\ conf.attachments_source = "from_table" /\ ~conf.disable_attachments
    /\ "attachments" \in Range(steps[i])
    /\ ~IsNone(Loaded(rows[i][ColA]))

\* The file names row i lists, and those of them the base map does not hold.
ListedNames(i) == Value(Loaded(rows[i][ColA]))
UnknownNames(i) == { k \in 1..Len(ListedNames(i)) : ListedNames(i)[k] \notin Range(base) }

\* The base map restricted to the listed names, in any key order.
Restricted(i) == Orders(Range(base) \cap Range(ListedNames(i)))

\* C12: with attachments source from_table and attachments not disabled, a row
\* whose listed file names are all in the base map is built, sent and recorded
\* with exactly the base map restricted to the listed names; a row that lists
\* a name absent from the base map is recorded as ERROR with a message citing
\* that name, is neither built nor sent, and does not end the loop when
\* continue_on_error is true.
C12_FromTableNarrowing ==
    \A i \in Processed :
        ListsAttachments(i) =>
            IF UnknownNames(i) = {}
            THEN /\ "build" \in Range(steps[i])
                 /\ Attempted(i) =>
                       /\ Value(sent[i]).email.attachments \in Restricted(i)
                       /\ Value(sent[i]).attachments_paths
                              = Some(Value(sent[i]).email.attachments)
                 /\ ~Disallowed(i) =>
                       \E m \in Restricted(i) :
                           ledger[i].attachment_filenames = AttachmentsToLog(m)
            ELSE /\ Status(i) = "ERROR"
                 /\ ledger[i].error_message
                        = Msg("KeyError", << ListedNames(i)[Min(UnknownNames(i))] >>)
                 /\ "build" \notin Range(steps[i])
                 /\ ~Attempted(i)
                 /\ conf.continue_on_error => exit # "break"

\* C12 witness: a row listing an unknown file recorded as ERROR, then a row
\* sent with the one file it lists out of the two of the base map.
C12_Witness ==
    /\ Len(ledger) = 2 /\ ListsAttachments(1) /\ ListsAttachments(2)
    /\ UnknownNames(1) # {} /\ ledger[1].error_message.kind = "KeyError"
    /\ Attempted(2) /\ Value(sent[2]).email.attachments = << FileF >>
    /\ base = << FileF, FileH >>
    /\ ledger[2].attachment_filenames = << "[", Quote, "f", Quote, "]" >>

----------------------------------------------------------------------------
(* Single calls of the component's functions, outside a run: conf holds the *)
(* function called and its arguments, outcome what it returns or raises.    *)

\* Longest recipient field, mask and template text of a call, in characters,
\* and the largest number of tokens of a template assembled from tokens.
MaxEmailLen == 3
MaxMaskLen == 2
MaxTemplateLen == 7
MaxTokens == 2

\* The texts of at most n characters over an alphabet.
Texts(alphabet, n) == UNION { [1..k -> alphabet] : k \in 0..n }

\* Recipient fields, and allow-lists of one mask or of two short masks.
EmailChars == {"a", "x", ",", " ", "\n"}
MaskChars == {"*", "a", "x"}
CallWhitelists ==
    { << m >> : m \in Texts(MaskChars, MaxMaskLen) }
        \cup { << m1, m2 >> : m1 \in Texts(MaskChars, 1), m2 \in Texts(MaskChars, 1) }
        \cup { << >> }

BuildEmailCalls ==
    [ fn : {"build_email"},
      recipient_email_address : Texts(EmailChars, MaxEmailLen),
      address_whitelist : CallWhitelists ]

\* Template texts: every text over braces, a letter and a blank, and texts
\* assembled from placeholders and plain characters.
TplK == << OB, OB, "k", CB, CB >>
TplSpaced == << OB, OB, " ", "n", " ", CB, CB >>
TemplateTokens == { TplN, TplM, TplK, TplSpaced, << "x" >> }

RECURSIVE Concat(_)
Concat(texts) == IF texts = << >> THEN << >> ELSE Head(texts) \o Concat(Tail(texts))

TokenTemplates ==
    { Concat(ts) : ts \in UNION { [1..k -> TemplateTokens] : k \in 0..MaxTokens } }

ParseCalls ==
    [ fn : {"_parse_template_placeholders"},
      template_text : Texts({OB, CB, "n", " "}, MaxTemplateLen) ]

ValidateCalls ==
    [ fn : {"_validate_template_text"},
      template_text : TokenTemplates,
      columns : SUBSET {<< "n" >>, << "m" >>} ]

\* Calls of init_client: the allowed_hosts override, the configured server,
\* the transport options, and whether init_smtp_server gets its connection.
MaxAllowedHosts == 2
Endpoints == { Host1, Host2, Host3 }
AllowedHostLists == UNION { [1..k -> Endpoints] : k \in 0..MaxAllowedHosts }
InitClientCalls ==
    [ fn : {"init_client"},
      allowed_hosts : AllowedHostLists,
      creds : Endpoints,
      use_oauth : BOOLEAN,
      connection_protocol : {"SSL", "TLS", "FTP"},
      connected : BOOLEAN ]

Calls == BuildEmailCalls \cup ParseCalls \cup ValidateCalls \cup InitClientCalls

Returned(value) == [kind |-> "returned", value |-> value]

CallsInit ==
    /\ conf \in Calls
    /\ pc = "call"
    /\ outcome = Running
    /\ client = None
    /\ transport = "Uninitialized"
    /\ opens = 0
    /\ base = << >>
    /\ file = "absent"
    /\ ledger = << >>
    /\ errors = FALSE
    /\ manifest = FALSE
    /\ reader = NoReader
    /\ locals = NoLocals
    /\ rows = << >>
    /\ steps = << >>
    /\ sent = << >>
    /\ exit = "none"

\* SMTPClient.build_email on a client with the call's allow-list.
CallBuildEmail ==
    /\ pc = "call" /\ conf.fn = "build_email"
    /\ LET cl == [ sender_email_address |-> Sender,
                   address_whitelist |-> conf.address_whitelist,
                   disable_attachments |-> FALSE,
                   smtp_server |-> None ]
           b == BuildEmail(cl, conf.recipient_email_address, BasicSubject, BasicBody,
                           None, << >>)
       IN  outcome' = IF IsNone(b.err) THEN Returned(b.email)
                      ELSE Raised("UserException", Value(b.err))
    /\ pc' = "done"
    /\ UNCHANGED << conf, client, transport, opens, base, file, ledger, errors,
                    manifest, reader, locals, rows, steps, sent, exit >>

\* Component._parse_template_placeholders
CallParseTemplatePlaceholders ==
    /\ pc = "call" /\ conf.fn = "_parse_template_placeholders"
    /\ outcome' = Returned(ParseTemplatePlaceholders(conf.template_text))
    /\ pc' = "done"
    /\ UNCHANGED << conf, client, transport, opens, base, file, ledger, errors,
                    manifest, reader, locals, rows, steps, sent, exit >>

\* Component._validate_template_text with continue_on_error False
CallValidateTemplateText ==
    /\ pc = "call" /\ conf.fn = "_validate_template_text"
    /\ LET raised == ValidateTemplateText(conf.template_text, conf.columns)
       IN  IF raised = {} THEN outcome' = Returned(None)
           ELSE \E e \in raised : outcome' = Raised("UserException", e)
    /\ pc' = "done"
    /\ UNCHANGED << conf, client, transport, opens, base, file, ledger, errors,
                    manifest, reader, locals, rows, steps, sent, exit >>

\* Component.init_client
CallInitClient ==
    /\ pc = "call" /\ conf.fn = "init_client"
    /\ LET r == InitClientResult([address_whitelist |-> << >>, disable_attachments |-> FALSE],
                                 conf.allowed_hosts, conf.creds, conf.use_oauth,
                                 conf.connection_protocol, conf.connected)
       IN  /\ client' = r.client
           /\ transport' = r.transport
           /\ opens' = opens + r.opened
           /\ outcome' = IF IsNone(r.err) THEN Returned(None) ELSE Value(r.err)
    /\ pc' = "done"
    /\ UNCHANGED << conf, base, file, ledger, errors, manifest, reader, locals,
                    rows, steps, sent, exit >>

CallsNext ==
    \/ CallBuildEmail
    \/ CallParseTemplatePlaceholders
    \/ CallValidateTemplateText
    \/ CallInitClient

SpecCalls == CallsInit /\ [][CallsNext]_vars

CallDone(fn) == pc = "done" /\ conf.fn = fn

----------------------------------------------------------------------------
\* A mask matches an address in full, '*' standing for zero or more
\* characters of wild and every other mask character for itself.
RECURSIVE Glob(_, _, _)
Glob(mask, address, wild) ==
    IF mask = << >> THEN address = << >>
    ELSE IF Head(mask) = "*"
         THEN \E k \in 0..Len(address) :
                 /\ \A j \in 1..k : address[j] \in wild
                 /\ Glob(Tail(mask), Slice(address, k + 1, Len(address)), wild)
         ELSE /\ address # << >>
              /\ Head(address) = Head(mask)
              /\ Glob(Tail(mask), Tail(address), wild)

\* The comma-separated addresses of a recipient field, trimmed.
Addresses(field) ==
    [k \in 1..Len(Split(field, ",")) |->
        Strip(Split(field, ",")[k], {" ", "\n", "\t"})]

\* The positions of the addresses that no mask of the allow-list matches.
NotAllowed(field, whitelist, wild) ==
    { k \in 1..Len(Addresses(field)) :
        \A w \in 1..Len(whitelist) : ~Glob(whitelist[w], Addresses(field)[k], wild) }

\* build_email succeeds iff no address is in bad, and otherwise raises citing
\* the first address in bad.
AllowListOutcome(bad) ==
    /\ outcome.kind = "returned" <=> bad = {}
    /\ bad # {} =>
          outcome = Raised("UserException",
                           Msg("does not match any of the allowed masks",
                               << Addresses(conf.recipient_email_address)[Min(bad)] >>))

----------------------------------------------------------------------------
\* The placeholder set as the specification defines it: every non-overlapping
\* shortest {{...}} match, without its two delimiters and without the
\* whitespace around what is left.
SpecPlaceholders(template_text) ==
    { Strip(Slice(m, 3, Len(m) - 2), {" ", "\n", "\t"}) :
        m \in Range(FindAll(template_text, 1)) }

\* C14: _validate_template_text succeeds iff every placeholder of the template
\* is one of the columns, and when it fails the names it reports as missing
\* are exactly the placeholders that are not columns.
C14_ValidatesPlaceholders ==
    CallDone("_validate_template_text") =>
        LET missing == SpecPlaceholders(conf.template_text) \ conf.columns
        IN  /\ outcome.kind = "returned" <=> missing = {}
            /\ outcome.kind # "returned" => Range(outcome.msg.args) = missing

----------------------------------------------------------------------------
\* C15: the placeholder parser returns the set of names obtained from every
\* non-overlapping non-greedy {{...}} match by stripping the delimiters and
\* the surrounding whitespace, so {{ n }} and {{n}} yield the same name; text
\* outside matched pairs contributes nothing.
C15_ParserStripsWhitespace ==
    CallDone("_parse_template_placeholders") =>
        outcome.value = SpecPlaceholders(conf.template_text)

----------------------------------------------------------------------------
\* The order of Python's sorted() on the names: by code point, a proper
\* prefix first.
CharOrder == << " ", "k", "m", "n", "x", "{", "}" >>
CharRank(ch) == CHOOSE r \in 1..Len(CharOrder) : CharOrder[r] = ch

RECURSIVE TextLess(_, _)
TextLess(a, b) ==
    IF a = << >> THEN b # << >>
    ELSE IF b = << >> THEN FALSE
    ELSE IF Head(a) = Head(b) THEN TextLess(Tail(a), Tail(b))
    ELSE CharRank(Head(a)) < CharRank(Head(b))

\* C16: the message of a failed validation names every missing placeholder
\* once, in sorted order.
C16_MissingNamesSorted ==
    (CallDone("_validate_template_text") /\ outcome.kind # "returned") =>
        /\ Range(outcome.msg.args) = MissingColumns(conf.template_text, conf.columns)
        /\ \A i, j \in 1..Len(outcome.msg.args) :
              i < j => TextLess(outcome.msg.args[i], outcome.msg.args[j])

----------------------------------------------------------------------------
\* The HTML template of row i.
HtmlTemplate(i) == IF conf.message_body_source = "from_table" THEN rows[i][ColH]
                   ELSE ReadTemplateText(conf, FALSE)

\* Row i has a subject template that passed validation and that jinja2 fails
\* to render.
SubjectRenderFails(i) ==
    /\ conf.configuration_type = "advanced" /\ IsDict
    /\ conf.subject_source = "from_table" \/ ~IsNone(conf.subject_template_definition)
    /\ conf.subject_source = "from_table" => Validated(rows[i][ColS], Fieldnames) = {}
    /\ IsNone(Rendered(SubjectTemplate(i), rows[i]))

\* A failure of row i after its subject: a body template that names a missing
\* column or does not render, an attachment list that is not usable.
FailsAfterSubject(i) ==
    \/ MissingInRow(i)
    \/ IsNone(Rendered(BodyTemplate(i), rows[i]))
    \/ conf.use_html_template /\ IsNone(Rendered(HtmlTemplate(i), rows[i]))
    \/ UnknownAttachment(i)
    \/ /\ conf.attachments_source = "from_table" /\ ~conf.disable_attachments
       /\ IsNone(Loaded(rows[i][ColA]))

\* The step of row i that follows step s.
StepAfter(i, s) ==
    LET k == CHOOSE k \in 1..Len(steps[i]) : steps[i][k] = s
    IN  IF k < Len(steps[i]) THEN Some(steps[i][k + 1]) ELSE None

\* C17: a row whose subject template fails to render does not fail because of
\* it: the row goes on from the subject to its body, the message is built with
\* the template text verbatim as its subject, sent and recorded with it, and
\* the row is an ERROR only for a failure of a later step.
C17_SubjectFallback ==
    \A i \in Processed : SubjectRenderFails(i) =>
        /\ "render_subject" \in Range(steps[i])
        /\ StepAfter(i, "render_subject") \in
              { Some("resolve_plaintext"), Some("render_plaintext") }
        /\ ledger[i].error_message.kind = "TemplateSyntaxError" => FailsAfterSubject(i)
        /\ Status(i) = "ERROR" =>
              FailsAfterSubject(i) \/ Disallowed(i) \/ SendFailed(i)
        /\ (~FailsAfterSubject(i) /\ ~Disallowed(i)) =>
              /\ "build" \in Range(steps[i])
              /\ ledger[i].subject = SubjectTemplate(i)
              /\ conf.dry_run \/ Attempted(i)
        /\ Attempted(i) => Value(sent[i]).email.Subject = SubjectTemplate(i)

\* C17 witness: a row whose subject is the unterminated "{{" was sent and
\* recorded OK with that text as its subject.
C17_Witness ==
    \E i \in Processed :
        /\ SubjectRenderFails(i) /\ SubjectTemplate(i) = TplBad
        /\ Attempted(i) /\ Value(sent[i]).ok /\ Status(i) = "OK"
        /\ ledger[i].subject = TplBad
        /\ Value(sent[i]).email.Subject = TplBad

----------------------------------------------------------------------------
\* How many ledger records can be on storage.  results.csv is opened with
\* Python's default (block) buffering and the code never flushes it: while the
\* file is open any prefix of the records written so far may have reached
\* storage; closing the file writes them all.
DurableRecords ==
    IF file = "open" THEN 0..Len(ledger)
    ELSE IF file = "closed" THEN { Len(ledger) }
    ELSE { }

\* C18: each ledger record is on durable storage once its row is over and
\* before the next row starts, so a crash at any point of the run loses at
\* most the record of the row in flight.
C18_FlushedAfterEachRow ==
    \A d \in DurableRecords : d = Len(ledger)

----------------------------------------------------------------------------
\* C19: HTML body resolution, validation and rendering happen only with
\* use_html_template: without it no HTML column is taken and no shared HTML
\* template is read, no row performs an HTML step, every message sent has no
\* HTML part and every ledger row has an empty html_message_body, whatever
\* HTML column, file or definition is configured.
C19_HtmlOnlyWhenEnabled ==
    ~conf.use_html_template =>
        /\ IsNone(locals.html_template_column)
        /\ IsNone(locals.html_template_text)
        /\ \A i \in Processed :
              /\ Range(steps[i]) \cap { "resolve_html", "validate_html", "render_html" } = {}
              /\ ledger[i].html_message_body = << >>
              /\ Attempted(i) => IsNone(Value(sent[i]).email.html)

\* C19 witness: with HTML disabled and the bodies taken from the table, a row
\* whose HTML column names a missing column was sent, without an HTML part,
\* and recorded OK.
C19_Witness ==
    /\ conf.configuration_type = "advanced" /\ ~conf.use_html_template
    /\ conf.message_body_source = "from_table"
    /\ \E i \in Processed :
          /\ IsDict /\ Validated(rows[i][ColH], Fieldnames) # {}
          /\ Attempted(i) /\ IsNone(Value(sent[i]).email.html)
          /\ Status(i) = "OK" /\ ledger[i].html_message_body = << >>

----------------------------------------------------------------------------
\* The steps of one iteration in the order of the code: for each template
\* resolve, validate, render (the subject is rendered before the bodies are
\* resolved), then the attachments, build, send, record.
StepOrder ==
    << "resolve_subject", "validate_subject", "render_subject",
       "resolve_plaintext", "validate_plaintext", "resolve_html", "validate_html",
       "render_plaintext", "render_html", "attachments", "build", "send", "record" >>

\* C20: for each row the steps occur in the order Resolve, Validate, Render
\* (for each of its templates), Build, Send, Record, each at most once: a send
\* is attempted only after the row's validation, rendering and build
\* (allow-list check included) succeeded, the record is written last, after
\* the send attempt returned or failed and with its result, and a row is
\* started only when every earlier row has its record.
C20_StepOrder ==
    /\ Len(ledger) = Len(rows) /\ Len(steps) = Len(rows) /\ Len(sent) = Len(rows)
    /\ \A i \in Processed :
          LET done == Range(steps[i])
          IN  /\ steps[i] = SelectSeq(StepOrder, LAMBDA s : s \in done)
              /\ "validate_subject" \in done <=> "resolve_subject" \in done
              /\ "validate_plaintext" \in done <=> "resolve_plaintext" \in done
              /\ "validate_html" \in done <=> "resolve_html" \in done
              /\ "record" \in done
              /\ Attempted(i) <=> "send" \in done
              /\ Attempted(i) =>
                    /\ "build" \in done
                    /\ ~Disallowed(i) /\ ~MissingInRow(i) /\ ~UnknownAttachment(i)
                    /\ (conf.configuration_type = "advanced") =>
                          /\ { "render_subject", "render_plaintext" } \subseteq done
                          /\ ~IsNone(Rendered(BodyTemplate(i), rows[i]))
                          /\ conf.use_html_template <=> "render_html" \in done
                    /\ Status(i) = (IF Value(sent[i]).ok THEN "OK" ELSE "ERROR")
                    /\ ledger[i].error_message =
                          (IF Value(sent[i]).ok THEN NoMessage ELSE Value(sent[i]).msg)

\* C20 witness: a row that went through every step, its send failed and was
\* recorded as ERROR; then the next row was sent.
C20_Witness ==
    /\ Len(ledger) = 2
    /\ steps[1] = StepOrder
    /\ SendFailed(1) /\ Status(1) = "ERROR"
    /\ Attempted(2)

----------------------------------------------------------------------------
\* The error run raises when some email could not be sent.
SomeNotSent == Raised("UserException", Msg("Some emails couldn't be sent", << >>))

\* Some ledger row has status ERROR.
SomeErrorRow == \E i \in 1..Len(ledger) : Status(i) = "ERROR"

\* C21: the outcome of a run is tied to its ledger, whatever continue_on_error
\* is: the writer's error flag is set iff some ledger row is an ERROR; once the
\* row loop is over and the run has ended, the run has raised "Some emails
\* couldn't be sent" iff some ledger row is an ERROR, and has returned
\* normally otherwise; that error is raised only after the loop, with the
\* manifest of the ledger written.
C21_OutcomeTiedToLedger ==
    /\ file # "absent" => (errors <=> SomeErrorRow)
    /\ (Done /\ LoopOver) =>
          /\ manifest
          /\ outcome = SomeNotSent <=> SomeErrorRow
          /\ outcome = Raised("none", NoMessage) <=> ~SomeErrorRow
    /\ outcome = SomeNotSent => (Done /\ LoopOver /\ manifest /\ file = "closed")

\* C21 witness: with continue_on_error the run went through all its rows, one
\* of them an ERROR and a later one OK, wrote the manifest and raised.
C21_Witness ==
    /\ conf.continue_on_error /\ Done /\ exit = "exhausted"
    /\ Len(ledger) = 2 /\ Status(1) = "ERROR" /\ Status(2) = "OK"
    /\ manifest /\ outcome = SomeNotSent

----------------------------------------------------------------------------
\* C22: in every ledger row the status is ERROR iff the error_message is not
\* empty, and OK iff it is empty, whatever message the exception of a failed
\* step carries.
C22_StatusIffMessage ==
    \A i \in 1..Len(ledger) :
        /\ Status(i) \in { "OK", "ERROR" }
        /\ Status(i) = "ERROR" <=> Truthy(ledger[i].error_message)

----------------------------------------------------------------------------
\* The configured server is the (host, port) of some allowed entry.
HostListed(allowed_hosts, creds) ==
    \E k \in 1..Len(allowed_hosts) :
        << allowed_hosts[k].host, allowed_hosts[k].port >> = << creds.host, creds.port >>

\* C23: with a non-empty allowed_hosts override, init_client constructs no
\* transport and attempts no connection unless the configured server host and
\* port are those of an allowed entry, and raises a user error naming the host
\* and the port otherwise; with an empty override, and for a listed server,
\* the host check rejects nothing and the connection is attempted.
C23_AllowedHosts ==
    CallDone("init_client") =>
        IF conf.allowed_hosts # << >> /\ ~HostListed(conf.allowed_hosts, conf.creds)
        THEN /\ IsNone(client) /\ transport = "Uninitialized" /\ opens = 0
             /\ outcome = Raised("UserException",
                                 Msg("Host is not allowed",
                                     << conf.creds.host, conf.creds.port >>))
        ELSE /\ outcome.kind = "returned" \/ outcome.msg.kind # "Host is not allowed"
             /\ ~IsNone(Strategy(conf.use_oauth, conf.connection_protocol)) =>
                   /\ ~IsNone(client)
                   /\ transport = (IF conf.connected THEN "Connected" ELSE "Uninitialized")
                   /\ conf.connected <=> outcome = Returned(None)

\* C23 witness: the configured host is allowed on another port only; it is
\* rejected by name and nothing is constructed.
C23_Witness ==
    /\ CallDone("init_client")
    /\ conf.allowed_hosts = << Host2, Host1 >> /\ conf.creds = Host3
    /\ conf.connected /\ conf.connection_protocol = "SSL"
    /\ IsNone(client) /\ transport = "Uninitialized"
    /\ outcome = Raised("UserException",
                        Msg("Host is not allowed", << "smtp.one", "587" >>))

====
